---- MODULE Spec2Model ----
(***************************************************************************)
(* Model of AgentWriter<Message> (src/src/writer.cpp): a bounded queue of  *)
(* messages shared by producer threads and one worker thread, with the     *)
(* flush()/stop() handshakes over mutex_ and condition_.                   *)
(*                                                                         *)
(* Every critical section that is entered and left without waiting is one  *)
(* atomic action guarded by mutex = "free".  The worker's critical section *)
(* from the return of wait_for to the end of the block (lines 95-112) is   *)
(* split in two (WorkerWake, WorkerDrain) so that the state in which the   *)
(* worker holds mutex_ is visible.                                         *)
(***************************************************************************)
EXTENDS Integers, Sequences, FiniteSets

\* ---- bounds ----
MaxQueued == 2        \* max_queued_messages_ given to the constructor
MaxWrites == 3        \* number of write() calls made by the producers
MaxFlushCalls == 2    \* number of flush() calls made over all threads
MaxFairWrites == 2    \* number of write() calls in the runs checked for liveness
MaxFairFlushCalls == 1  \* number of flush() calls in the runs checked for liveness

Flushers == {"f1", "f2"}
\* threads calling stop(); Destroyer calls it from ~AgentWriter or directly
Stoppers == {"s1", "s2"}

\* Results of one postMessages call: which transport step failed, if any.
Outcomes == {"ok", "headers_failed", "size_failed", "body_failed", "perform_failed",
             "bad_alloc"}

\* The results in which a transport step returned an error code.
Failures == {"headers_failed", "size_failed", "body_failed", "perform_failed"}

VARIABLES
  messages_,       \* std::deque<Message> messages_
  stop_writing_,   \* bool stop_writing_
  flush_worker_,   \* bool flush_worker_
  mutex,           \* holder of mutex_ across steps: "free" or "worker"
  wpc,             \* position of the worker thread
  buffer,          \* worker local: std::stringstream buffer (encoded payload)
  num_messages,    \* worker local: size_t num_messages
  fpc,             \* position of each thread calling flush()
  spc,             \* position of each thread calling stop()
  nextId,          \* history: id of the next record passed to write()
  accepted,        \* history: records that write() pushed, in order
  dropped,         \* history: records dropped because the queue was full
  refused,         \* history: records dropped because stop was requested
  encoded,         \* history: batches handed to msgpack::pack, in order
  posted,          \* the request just performed, until the worker locks again
  rcode,           \* outcome of the postMessages call that has just returned
  flushSnap,       \* history: Len(accepted) when the pending flush() began
  flushCalls,      \* history: number of flush() calls begun
  timedDrain,      \* history: some drain was begun by a wait_for timeout
  released,        \* history: flush() callers blocked when the flag was last
                   \*          cleared and not yet returned
  ctor,            \* history: how the constructor ended
  raised,          \* an exception left the call that ended in the last step
  joined,          \* worker_->join() has returned: worker_ is not joinable
  destroyed        \* ~AgentWriter has destroyed the members

vars == <<messages_, stop_writing_, flush_worker_, mutex, wpc, buffer,
          num_messages, fpc, spc, nextId, accepted, dropped, refused, encoded,
          posted, rcode, flushSnap, flushCalls, timedDrain, released,
          ctor, raised, joined, destroyed>>

shared == <<messages_, stop_writing_, flush_worker_>>
workerVars == <<wpc, buffer, num_messages, rcode, posted>>
writeHist == <<nextId, accepted, dropped, refused>>
sendHist == <<encoded, timedDrain>>
flushHist == <<flushSnap, flushCalls, released>>

\* ---- helpers ----
RECURSIVE Flatten(_)
Flatten(batches) ==
  IF batches = <<>> THEN <<>> ELSE Head(batches) \o Flatten(Tail(batches))

Range(s) == {s[i] : i \in 1..Len(s)}

\* condition_.notify_all(): every thread blocked in condition_.wait becomes
\* runnable; it still has to reacquire mutex_ and test its predicate.
NotifyAll(pcs) == [f \in Flushers |-> IF pcs[f] = "waiting" THEN "woken" ELSE pcs[f]]

\* The process is alive: no exception has left the worker's thread function
\* (which calls std::terminate).
Running == wpc # "Terminated"

\* The process is alive and the writer has not been destroyed: the
\* application may call write(), flush() or stop() on it.
Alive == Running /\ ~destroyed

\* no request performed in this cycle
NoRequest == [count |-> 0, body |-> <<>>]

\* ---- construction, lines 22-51 ----
\* Results of a call on the transport handle.
Rcodes == {"CURLE_OK", "CURLE_ERROR"}

\* lines 34-51: setUpHandle returns, or throws std::runtime_error at the
\* first call that does not give CURLE_OK
SetUpHandle(urlRc, hdrRc) ==
  IF urlRc # "CURLE_OK" THEN "url_error"
  ELSE IF hdrRc # "CURLE_OK" THEN "headers_error"
  ELSE "ok"

\* lines 29-30: startWriting runs only when setUpHandle has returned
StartWriting(setup) == IF setup = "ok" THEN "Idle" ELSE "NotStarted"

\* the constructor returned: there is an AgentWriter to call
Constructed == ctor = "ok"

\* ---- the state after construction (lines 22-31, 84-90) ----
Init ==
  /\ \E urlRc \in Rcodes, hdrRc \in Rcodes :
       /\ ctor = SetUpHandle(urlRc, hdrRc)
       /\ wpc = StartWriting(ctor)
  /\ raised = FALSE
  /\ joined = FALSE
  /\ destroyed = FALSE
  /\ messages_ = <<>>
  /\ stop_writing_ = FALSE
  /\ flush_worker_ = FALSE
  /\ mutex = "free"
  /\ buffer = <<>>
  /\ num_messages = 0
  /\ fpc = [f \in Flushers |-> "idle"]
  /\ spc = [s \in Stoppers |-> "idle"]
  /\ nextId = 1
  /\ accepted = <<>>
  /\ dropped = {}
  /\ refused = {}
  /\ encoded = <<>>
  /\ posted = NoRequest
  /\ rcode = "none"
  /\ flushSnap = [f \in Flushers |-> 0]
  /\ flushCalls = 0
  /\ timedDrain = FALSE
  /\ released = {}

\* ---- write(), lines 71-81 ----
QueueFullOffByOne == Len(messages_) > MaxQueued

\* line 77: the queue is at capacity
QueueFull == Len(messages_) >= MaxQueued

NeverRefused == FALSE

\* line 74: write() after stop was requested
WriteRefused == stop_writing_

PushFront(q, r) == <<r>> \o q

\* line 80: messages_.push_back
PushBack(q, r) == Append(q, r)

WriteQueueEvictOldest(r) ==
  IF WriteRefused THEN messages_
  ELSE IF QueueFull THEN PushBack(Tail(messages_), r)
  ELSE PushBack(messages_, r)

\* lines 74-80: the queue after write(r) returns
WriteQueue(r) ==
  IF WriteRefused THEN messages_
  ELSE IF QueueFull THEN messages_
  ELSE PushBack(messages_, r)

Write ==
  /\ Constructed
  /\ Alive
  /\ mutex = "free"
  /\ nextId <= MaxWrites
  /\ messages_' = WriteQueue(nextId)
  /\ IF messages_' # messages_
       THEN /\ accepted' = Append(accepted, nextId)
            /\ UNCHANGED <<dropped, refused>>
       ELSE IF stop_writing_
         THEN /\ refused' = refused \cup {nextId}
              /\ UNCHANGED <<accepted, dropped>>
         ELSE /\ dropped' = dropped \cup {nextId}
              /\ UNCHANGED <<accepted, refused>>
  /\ nextId' = nextId + 1
  /\ UNCHANGED <<stop_writing_, flush_worker_, mutex, workerVars, fpc, spc,
                 sendHist, flushHist, ctor, joined, destroyed>>
  /\ raised' = FALSE

\* line 80: the allocation made by messages_.push_back fails.  write() has no
\* try block, so std::bad_alloc goes to the caller; the queue is unchanged and
\* the record is in none of the histories.
WriteThrows ==
  /\ Constructed
  /\ Alive
  /\ mutex = "free"
  /\ nextId <= MaxWrites
  /\ ~WriteRefused
  /\ ~QueueFull
  /\ raised' = TRUE
  /\ UNCHANGED <<shared, mutex, workerVars, fpc, spc, nextId, accepted,
                 dropped, refused, sendHist, flushHist, ctor, joined,
                 destroyed>>

\* ---- flush(), lines 126-134 ----
FlushDoneIgnoresStop == ~flush_worker_

\* line 132: the predicate of condition_.wait in flush()
FlushDone == ~flush_worker_ \/ stop_writing_

\* lines 128-132 up to the first test of the predicate: set the flag, wake
\* everybody, then either return at once or block in condition_.wait
FlushBegin(f) ==
  /\ Constructed
  /\ Alive
  /\ fpc[f] = "idle"
  /\ flushCalls < MaxFlushCalls
  /\ mutex = "free"
  /\ flush_worker_' = TRUE
  /\ fpc' = [NotifyAll(fpc) EXCEPT ![f] = IF stop_writing_ THEN "idle" ELSE "waiting"]
  /\ flushSnap' = [flushSnap EXCEPT ![f] = IF stop_writing_ THEN 0 ELSE Len(accepted)]
  /\ flushCalls' = flushCalls + 1
  /\ UNCHANGED <<messages_, stop_writing_, mutex, workerVars, spc, writeHist,
                 sendHist, released, ctor, joined, destroyed>>
  /\ raised' = FALSE

\* a spurious wakeup of condition_.wait (allowed by std::condition_variable)
FlushSpurious(f) ==
  /\ Running
  /\ fpc[f] = "waiting"
  /\ fpc' = [fpc EXCEPT ![f] = "woken"]
  /\ UNCHANGED <<shared, mutex, workerVars, spc, writeHist, sendHist,
                 flushHist, ctor, joined, destroyed>>
  /\ raised' = FALSE

\* line 132: a woken thread reacquires mutex_ and tests the predicate again
FlushRecheck(f) ==
  /\ Alive
  /\ fpc[f] = "woken"
  /\ mutex = "free"
  /\ fpc' = [fpc EXCEPT ![f] = IF FlushDone THEN "idle" ELSE "waiting"]
  /\ flushSnap' = [flushSnap EXCEPT ![f] = IF FlushDone THEN 0 ELSE @]
  /\ released' = IF FlushDone THEN released \ {f} ELSE released
  /\ UNCHANGED <<shared, mutex, workerVars, spc, writeHist, sendHist,
                 flushCalls, ctor, joined, destroyed>>
  /\ raised' = FALSE

\* ---- stop(), lines 58-69 (also run by ~AgentWriter, lines 53-56) ----
\* line 62: stop() returns at once when stop_writing_ is already set
AlreadyStopped == stop_writing_

\* lines 60-66
StopBegin(s) ==
  /\ Constructed
  /\ Alive
  /\ spc[s] = "idle"
  /\ mutex = "free"
  /\ IF AlreadyStopped
       THEN /\ spc' = [spc EXCEPT ![s] = "done"]
            /\ UNCHANGED stop_writing_
       ELSE /\ stop_writing_' = TRUE
            /\ spc' = [spc EXCEPT ![s] = "notify"]
  /\ UNCHANGED <<messages_, flush_worker_, mutex, workerVars, fpc, writeHist,
                 sendHist, flushHist, ctor, joined, destroyed>>
  /\ raised' = FALSE

\* line 67
StopNotify(s) ==
  /\ Running
  /\ spc[s] = "notify"
  /\ fpc' = NotifyAll(fpc)
  /\ spc' = [spc EXCEPT ![s] = "join"]
  /\ UNCHANGED <<shared, mutex, workerVars, writeHist, sendHist, flushHist,
                 ctor, joined, destroyed>>
  /\ raised' = FALSE

\* line 68: worker_->join() returns once the worker's lambda has returned
StopJoin(s) ==
  /\ spc[s] = "join"
  /\ wpc = "Stopped"
  /\ spc' = [spc EXCEPT ![s] = "done"]
  /\ joined' = TRUE
  /\ UNCHANGED <<shared, mutex, workerVars, fpc, writeHist, sendHist,
                 flushHist, ctor, destroyed>>
  /\ raised' = FALSE

\* ---- ~AgentWriter(), lines 53-56 ----
\* The thread that destroys the writer: its stop() call is the one of line 55.
Destroyer == "s2"

\* std::thread::joinable() of *worker_: the thread was started (line 86) and
\* no join() on it has returned
Joinable == ~joined

\* line 56: the destructor's body has ended and the members are destroyed,
\* worker_ among them.  Destroying a joinable std::thread calls
\* std::terminate: that is the case when the destructor's stop() returned at
\* line 63 while another thread has set stop_writing_ and has not yet come
\* back from join().
DtorDestroy ==
  /\ Alive
  /\ spc[Destroyer] = "done"
  /\ IF Joinable
       THEN wpc' = "Terminated" /\ UNCHANGED destroyed
       ELSE destroyed' = TRUE /\ UNCHANGED wpc
  /\ UNCHANGED <<shared, mutex, buffer, num_messages, rcode, posted, fpc, spc,
                 writeHist, sendHist, flushHist, ctor, joined>>
  /\ raised' = FALSE

\* What a flush() caller can meet when it uses a destroyed writer.
DeadReads == {"done", "not_done", "crash"}

\* line 132 after line 56: a flush() caller still inside condition_.wait
\* takes the mutex_ and reads the flags of a destroyed writer.  The behaviour
\* is undefined.  The storage holds the last values of the flags or whatever
\* has been put there since: the predicate is found true and flush() returns,
\* or it is found false and the caller waits again on the destroyed
\* condition_, or the process ends here.
FlushAfterDestroy(f) ==
  /\ Running
  /\ destroyed
  /\ fpc[f] = "woken"
  /\ \E read \in DeadReads :
       /\ wpc' = IF read = "crash" THEN "Terminated" ELSE wpc
       /\ fpc' = [fpc EXCEPT ![f] = CASE read = "done" -> "idle"
                                      [] read = "not_done" -> "waiting"
                                      [] OTHER -> @]
       /\ flushSnap' = [flushSnap EXCEPT ![f] = IF read = "done" THEN 0 ELSE @]
       /\ released' = IF read = "done" THEN released \ {f} ELSE released
  /\ UNCHANGED <<shared, mutex, buffer, num_messages, rcode, posted, spc,
                 writeHist, sendHist, flushCalls, ctor, joined, destroyed>>
  /\ raised' = FALSE

\* ---- the worker, lines 88-122 ----
WorkerWakeNoTimeout ==
  /\ wpc = "Idle"
  /\ mutex = "free"
  /\ flush_worker_ \/ stop_writing_
  /\ mutex' = "worker"
  /\ wpc' = "Draining"
  /\ UNCHANGED <<shared, buffer, num_messages, rcode, posted, fpc, spc,
                 writeHist, sendHist, flushHist, ctor, joined, destroyed>>
  /\ raised' = FALSE

\* lines 95-97: wait_for returns holding mutex_, because its predicate holds
\* or because write_period_ has elapsed
WorkerWake ==
  /\ wpc = "Idle"
  /\ mutex = "free"
  /\ mutex' = "worker"
  /\ wpc' = "Draining"
  /\ UNCHANGED <<shared, buffer, num_messages, rcode, posted, fpc, spc,
                 writeHist, sendHist, flushHist, ctor, joined, destroyed>>
  /\ raised' = FALSE

StopObservedWhenEmpty == stop_writing_ /\ messages_ = <<>>

StopNeverObserved == FALSE

\* line 98: the worker sees the stop request
StopObserved == stop_writing_

\* lines 109-110: the queue wrapped in one enclosing array, then packed
Pack(q) == <<q>>

\* line 110: the payload p cut short after k whole records.  msgpack::pack
\* writes through std::ostream::write, which turns an exception of the stream
\* buffer into badbit and returns: what was written before stays in buffer,
\* every later write does nothing.
Cut(p, k) == <<SubSeq(p[1], 1, k), "cut">>

\* the payload is a cut one
IsCut(p) == Len(p) = 2

SnapshotFirstOnly(q) == <<Head(q)>>

\* lines 101-111: the batch taken out of the queue
Snapshot(q) == q

ClearedKeepsAll(q) == q

\* line 111: what is left in the queue after the snapshot
Cleared(q) == <<>>

NothingToSendNever == FALSE

\* lines 101-104: the queue is empty, the worker goes back to waiting
NothingToSend == Len(messages_) = 0

DrainKeepsLock == "worker"

\* line 112 (and the return and continue of lines 99, 103): the scope of the
\* lock ends, mutex_ is released
MutexAfterDrain == "free"

\* lines 98-112, with mutex_ held
WorkerDrain ==
  /\ wpc = "Draining"
  /\ mutex = "worker"
  /\ mutex' = MutexAfterDrain
  /\ IF StopObserved
       THEN /\ wpc' = "Stopped"
            /\ UNCHANGED <<messages_, buffer, num_messages, sendHist>>
       ELSE /\ num_messages' = Len(messages_)
            /\ IF NothingToSend
                 THEN /\ wpc' = "Idle"
                      /\ UNCHANGED <<messages_, buffer, sendHist>>
                 ELSE /\ buffer' = Pack(Snapshot(messages_))
                      /\ encoded' = Append(encoded, Snapshot(messages_))
                      /\ messages_' = Cleared(messages_)
                      /\ timedDrain' = (timedDrain \/ ~flush_worker_)
                      /\ wpc' = "Sending"
  /\ UNCHANGED <<stop_writing_, flush_worker_, rcode, posted, fpc, spc,
                 writeHist, flushHist, ctor, joined, destroyed>>
  /\ raised' = FALSE

\* lines 106-107: buffer.clear(); buffer.str(std::string{})
BufferReset == <<>>

\* lines 105-110: buffer has been reset and the encoder throws std::bad_alloc
\* before it has written to it.  Nothing in the thread function catches the
\* exception, so it leaves it and std::terminate ends the process, mutex_
\* held and the queue as it was.
WorkerPackFails ==
  /\ wpc = "Draining"
  /\ mutex = "worker"
  /\ ~StopObserved
  /\ ~NothingToSend
  /\ num_messages' = Len(messages_)
  /\ buffer' = BufferReset
  /\ wpc' = "Terminated"
  /\ UNCHANGED <<shared, mutex, rcode, posted, fpc, spc, writeHist,
                 sendHist, flushHist, ctor, joined, destroyed>>
  /\ raised' = FALSE

\* lines 105-112: the allocation that fails is the growth of buffer while
\* msgpack::pack writes into it.  No exception leaves pack: the worker clears
\* the queue and goes on to send the cut payload with the full count.
WorkerPackCut ==
  /\ wpc = "Draining"
  /\ mutex = "worker"
  /\ ~StopObserved
  /\ ~NothingToSend
  /\ mutex' = MutexAfterDrain
  /\ num_messages' = Len(messages_)
  /\ \E k \in 0..(Len(messages_) - 1) :
       buffer' = Cut(Pack(Snapshot(messages_)), k)
  /\ encoded' = Append(encoded, Snapshot(messages_))
  /\ messages_' = Cleared(messages_)
  /\ timedDrain' = (timedDrain \/ ~flush_worker_)
  /\ wpc' = "Sending"
  /\ UNCHANGED <<stop_writing_, flush_worker_, rcode, posted, fpc, spc,
                 writeHist, flushHist, ctor, joined, destroyed>>
  /\ raised' = FALSE

\* lines 136-168: the request performed by postMessages, if it gets as far
\* as handle->perform() (line 160)
Performed(outcome) == outcome \in {"ok", "perform_failed"}

RequestCountsQueue(n, buf) == [count |-> Len(messages_), body |-> buf]

\* lines 139-154: the count header and the body given to the handle
Request(n, buf) == [count |-> n, body |-> buf]

AfterSendSkipOnFailure(outcome) == IF outcome = "ok" THEN "Handshake" ELSE "Idle"

\* lines 114-116: postMessages returns nothing, so whatever happened in it the
\* worker goes on to clear the flag
AfterSend(outcome) == "Handshake"

\* line 114, mutex_ not held
WorkerSend ==
  /\ wpc = "Sending"
  /\ \E outcome \in Outcomes :
       /\ rcode' = outcome
       /\ posted' = IF Performed(outcome)
                      THEN Request(num_messages, buffer)
                      ELSE posted
       /\ wpc' = AfterSend(outcome)
  /\ UNCHANGED <<shared, mutex, buffer, num_messages, fpc, spc, writeHist,
                 sendHist, flushHist, ctor, joined, destroyed>>
  /\ raised' = FALSE

\* lines 116-119
WorkerClearFlush ==
  /\ wpc = "Handshake"
  /\ mutex = "free"
  /\ flush_worker_' = FALSE
  /\ wpc' = "Notify"
  /\ released' = {f \in Flushers : fpc[f] # "idle"}
  /\ rcode' = "none"
  /\ posted' = NoRequest
  /\ UNCHANGED <<messages_, stop_writing_, mutex, buffer, num_messages, fpc,
                 spc, writeHist, sendHist, flushSnap, flushCalls, ctor,
                 joined, destroyed>>
  /\ raised' = FALSE

\* line 120
WorkerNotify ==
  /\ wpc = "Notify"
  /\ fpc' = NotifyAll(fpc)
  /\ wpc' = "Idle"
  /\ UNCHANGED <<shared, mutex, buffer, num_messages, rcode, posted, spc,
                 writeHist, sendHist, flushHist, ctor, joined, destroyed>>
  /\ raised' = FALSE

Worker == WorkerWake \/ WorkerDrain \/ WorkerSend \/ WorkerClearFlush \/ WorkerNotify

Next ==
  \/ Write
  \/ WriteThrows
  \/ \E f \in Flushers : FlushBegin(f)
  \/ \E f \in Flushers : FlushSpurious(f)
  \/ \E f \in Flushers : FlushRecheck(f)
  \/ \E s \in Stoppers : StopBegin(s)
  \/ \E s \in Stoppers : StopNotify(s)
  \/ \E s \in Stoppers : StopJoin(s)
  \/ DtorDestroy
  \/ \E f \in Flushers : FlushAfterDestroy(f)
  \/ WorkerWake
  \/ WorkerDrain
  \/ WorkerPackFails
  \/ WorkerPackCut
  \/ WorkerSend
  \/ WorkerClearFlush
  \/ WorkerNotify

Spec == Init /\ [][Next]_vars

TypeOK ==
  /\ messages_ \in Seq(1..MaxWrites)
  /\ stop_writing_ \in BOOLEAN
  /\ flush_worker_ \in BOOLEAN
  /\ mutex \in {"free", "worker"}
  /\ wpc \in {"NotStarted", "Idle", "Draining", "Sending", "Handshake", "Notify",
              "Stopped", "Terminated"}
  /\ fpc \in [Flushers -> {"idle", "waiting", "woken"}]
  /\ spc \in [Stoppers -> {"idle", "notify", "join", "done"}]
  /\ joined \in BOOLEAN
  /\ destroyed \in BOOLEAN

\* The worker thread and every thread inside flush() or stop() keep being
\* scheduled, and handle->perform() terminates.  Calls of write(), flush() and
\* stop() are the application's choice and spurious wakeups may never happen:
\* neither is required to occur.  A woken flush() caller competes for mutex_
\* with the worker, hence strong fairness for it.
Fairness ==
  /\ WF_vars(WorkerWake)
  /\ WF_vars(WorkerDrain)
  /\ WF_vars(WorkerSend)
  /\ WF_vars(WorkerClearFlush)
  /\ WF_vars(WorkerNotify)
  /\ \A f \in Flushers : SF_vars(FlushRecheck(f))
  /\ \A s \in Stoppers : WF_vars(StopNotify(s)) /\ WF_vars(StopJoin(s))

\* the same steps, with fewer write() and flush() calls, with allocations
\* that succeed and with a writer that is not destroyed
FairNext ==
  \/ (nextId <= MaxFairWrites /\ Write)
  \/ \E f \in Flushers : flushCalls < MaxFairFlushCalls /\ FlushBegin(f)
  \/ \E f \in Flushers : FlushSpurious(f)
  \/ \E f \in Flushers : FlushRecheck(f)
  \/ \E s \in Stoppers : StopBegin(s)
  \/ \E s \in Stoppers : StopNotify(s)
  \/ \E s \in Stoppers : StopJoin(s)
  \/ WorkerWake
  \/ WorkerDrain
  \/ WorkerSend
  \/ WorkerClearFlush
  \/ WorkerNotify

FairSpec == Init /\ [][FairNext]_vars /\ Fairness

\* ---- properties ----
\* what msgpack::pack can leave in buffer when it is given the batch q
Encodings(q) == {Pack(q)} \cup {Cut(Pack(q), k) : k \in 0..(Len(q) - 1)}

\* a write() call returns in this step
WriteStep == nextId' = nextId + 1

\* flush() called by f returns in this step
FlushReturns(f) == fpc[f] # "idle" /\ fpc'[f] = "idle"

\* the records handed to msgpack::pack so far
Handed == Range(Flatten(encoded))

\* position of an accepted record in the order of acceptance
Pos(r) == CHOOSE k \in 1..Len(accepted) : accepted[k] = r

\* C1: whenever flush() returns while stop has not been requested, every
\* record accepted before that flush() began has been handed to the encoder.
C1_FlushHandsOverEarlierRecords ==
  [][\A f \in Flushers :
       (FlushReturns(f) /\ ~stop_writing_)
         => \A i \in 1..flushSnap[f] : accepted[i] \in Handed]_vars

\* C2: every flush() call eventually returns, without the help of a later
\* write() or stop().
C2_FlushEventuallyReturns ==
  \A f \in Flushers : (fpc[f] # "idle") ~> (fpc[f] = "idle")

\* C3: the queue never holds more than maxQueuedRecords records.
C3_QueueBounded == Len(messages_) <= MaxQueued

C3_Witness == Len(messages_) = MaxQueued /\ wpc = "Sending"

\* C4: a write() on a full queue drops the new record; the queue and both
\* flags are unchanged, no older record is evicted.
C4_FullWriteKeepsQueue ==
  [][(WriteStep /\ Len(messages_) >= MaxQueued)
       => /\ messages_' = messages_
          /\ stop_writing_' = stop_writing_
          /\ flush_worker_' = flush_worker_
          /\ accepted' = accepted]_vars

C4_Witness == dropped # {} /\ ~stop_writing_ /\ Len(messages_) = MaxQueued

\* C5: the batches handed to the encoder, concatenated in cycle order, list
\* records in the order in which write() accepted them.
C5_FifoAcrossBatches ==
  LET flat == Flatten(encoded) IN
    /\ \A i \in 1..Len(flat) : flat[i] \in Range(accepted)
    /\ \A i, j \in 1..Len(flat) : i < j => Pos(flat[i]) < Pos(flat[j])

C5_Witness ==
  /\ Len(encoded) >= 2
  /\ \E b \in 1..Len(encoded) : Len(encoded[b]) >= 2

\* C6: from the initial state, writes that all fit in the queue followed by
\* one flush(), without a timer-triggered drain, give the encoder exactly one
\* batch holding the written records in order; what the encoder has put in
\* buffer is that batch wrapped in one more sequence, whole or cut short.
C6_Scenario(f) ==
  /\ flushCalls = 1
  /\ ~timedDrain
  /\ ~stop_writing_
  /\ dropped = {} /\ refused = {}
  /\ accepted # <<>>
  /\ flushSnap[f] = Len(accepted)

C6_WritesThenFlushOneBatch ==
  [][\A f \in Flushers :
       (FlushReturns(f) /\ C6_Scenario(f))
         => encoded = <<accepted>> /\ buffer \in Encodings(accepted)]_vars

C6_Witness ==
  \E f \in Flushers :
    /\ fpc[f] = "woken" /\ ~flush_worker_
    /\ C6_Scenario(f)
    /\ Len(accepted) = MaxQueued
    /\ encoded # <<>>

\* C7: every stop() call eventually returns.
C7_StopEventuallyReturns ==
  \A s \in Stoppers : (spc[s] \in {"notify", "join"}) ~> (spc[s] = "done")

C7_Witness ==
  /\ \A s \in Stoppers : spc[s] = "done"
  /\ wpc = "Stopped"
  /\ messages_ # <<>>
  /\ \E f \in Flushers : flushCalls > 0

\* C8: whenever a stop() call has returned, the worker is in its terminal
\* state.
C8_StopReturnsAfterWorkerStopped ==
  \A s \in Stoppers : spc[s] = "done" => wpc = "Stopped"

\* C9: once stop is requested the worker takes no new snapshot: nothing more
\* is encoded, the queue is left as it is, a cycle in progress runs through
\* its send and handshake, and the worker stops only from the top of the loop.
C9_StopDoesNotFlush ==
  [][stop_writing_
       => /\ encoded' = encoded
          /\ buffer' = buffer
          /\ messages_' = messages_
          /\ (wpc \in {"Sending", "Handshake", "Notify"} => wpc' # "Stopped")
          /\ (posted' # posted /\ posted' # NoRequest
                => wpc = "Sending" /\ posted'.body = buffer)]_vars

C9_Witness ==
  /\ wpc = "Stopped"
  /\ messages_ # <<>>
  /\ encoded # <<>>
  /\ Range(messages_) \cap Handed = {}

\* C10: once stop is requested, write() drops the record and leaves the
\* queue unchanged, and stopRequested is never reset.
C10_WriteAfterStopNoOp ==
  [][stop_writing_
       => /\ stop_writing_'
          /\ (WriteStep => /\ messages_' = messages_
                           /\ accepted' = accepted
                           /\ refused' = refused \cup {nextId})]_vars

C10_Witness == stop_writing_ /\ refused # {} /\ Len(messages_) < MaxQueued

\* C11: a failure of any transport step ends the cycle as a success does: the
\* worker goes on to the handshake, clears flushRequested, wakes the blocked
\* flush() callers and is Idle again, and the records then in the queue are
\* handed to the encoder by a later cycle (unless stop is requested first).
C11_FailureReturnsToIdle ==
  /\ [][/\ (rcode' \in Failures /\ rcode \notin Failures)
             => (wpc' = "Handshake" /\ UNCHANGED <<shared, mutex>>)
        /\ (rcode \in Failures /\ wpc = "Handshake" /\ wpc' # wpc)
             => (~flush_worker_' /\ wpc' = "Notify")
        /\ (wpc = "Notify" /\ wpc' # wpc)
             => /\ wpc' = "Idle"
                /\ \A f \in Flushers : fpc[f] = "waiting" => fpc'[f] = "woken"]_vars
  /\ \A r \in 1..MaxFairWrites :
       (rcode \in Failures /\ r \in Range(messages_))
         ~> (r \in Handed \/ stop_writing_)

C11_Witness ==
  /\ rcode \in Failures
  /\ wpc = "Handshake"
  /\ flush_worker_
  /\ \E f \in Flushers : fpc[f] = "waiting"
  /\ messages_ # <<>>

\* C12: an allocation failure while a batch is encoded or sent stays inside
\* the worker's cycle and drops the batch: the worker is not ended while it
\* encodes, a payload cut short by the failure is not sent, and after a
\* failure in postMessages the worker goes on to the handshake.
C12_ExhaustionIsContained ==
  /\ ~(wpc = "Terminated" /\ mutex = "worker" /\ ~stop_writing_)
  /\ (posted # NoRequest => ~IsCut(posted.body))
  /\ (rcode = "bad_alloc" /\ Running => wpc = "Handshake")

\* C13: every flush() caller that was blocked when the worker cleared
\* flushRequested at the end of a cycle returns when it next tests its
\* predicate, whatever other flush() callers do in the meantime.
C13_OneCycleReleasesAllWaiters ==
  [][\A f \in released :
       (fpc[f] = "woken" /\ fpc'[f] # "woken") => fpc'[f] = "idle"]_vars

\* C14: when setting the endpoint or the static headers fails, construction
\* ends with an error and the worker is never started; and no exception ever
\* leaves write(), flush() or stop().
C14_OnlyConstructionRaises ==
  /\ (ctor # "ok" => wpc = "NotStarted")
  /\ ~raised

\* C15: while the worker is calling the transport handle it does not hold
\* mutex_, so a write() made during the send takes mutex_ and completes.
C15_SendHoldsNoLock ==
  wpc = "Sending"
    => /\ mutex = "free"
       /\ (nextId <= MaxWrites => ENABLED Write)

C15_Witness == wpc = "Sending" /\ messages_ # <<>> /\ ~stop_writing_

\* the last batch handed to the encoder
LastBatch == encoded[Len(encoded)]

NoDuplicates(q) == \A i, j \in 1..Len(q) : q[i] = q[j] => i = j

\* C16: no retry and no re-queueing: an accepted record is in at most one
\* batch, and until the worker stops the drained batches followed by the queue
\* are exactly the accepted records, each once.
C16_EachRecordInOnePlace ==
  /\ NoDuplicates(Flatten(encoded))
  /\ (wpc # "Stopped" => Flatten(encoded) \o messages_ = accepted)

C16_Witness ==
  /\ wpc = "Handshake"
  /\ encoded # <<>>
  /\ messages_ # <<>>

\* C17: no batch handed to the encoder or the transport is empty (a request
\* counts at least one record and carries the payload made from a batch of
\* that many records), and a worker that wakes to an empty queue goes back to
\* waiting without encoding or sending.
C17_NoEmptyBatch ==
  /\ [](/\ \A b \in 1..Len(encoded) : Len(encoded[b]) >= 1
        /\ (posted # NoRequest
              => /\ posted.count >= 1
                 /\ \E b \in 1..Len(encoded) :
                      /\ Len(encoded[b]) = posted.count
                      /\ posted.body \in Encodings(encoded[b])))
  /\ [][(wpc = "Draining" /\ wpc' # "Draining" /\ messages_ = <<>>
           /\ ~stop_writing_)
          => (wpc' = "Idle" /\ UNCHANGED <<encoded, buffer, posted, messages_>>)]_vars

C17_Witness ==
  /\ wpc = "Idle"
  /\ encoded # <<>>
  /\ num_messages = 0
  /\ flush_worker_

\* C20: in every send cycle the count given for the count header is the
\* number of records of the batch encoded in that cycle, whatever is written
\* to the queue during the send.
C20_CountMatchesBatch ==
  /\ (wpc \in {"Sending", "Handshake", "Notify"}
        => num_messages = Len(LastBatch) /\ buffer \in Encodings(LastBatch))
  /\ (posted # NoRequest
        => posted.count = Len(LastBatch) /\ posted.body = buffer)

C20_Witness == posted # NoRequest /\ messages_ # <<>> /\ posted.count = MaxQueued

\* C18: once stop is requested no flush() caller stays blocked: a caller that
\* is waiting returns, a caller that tests its predicate does not wait again,
\* and a flush() begun afterwards returns without waiting.
C18_StopReleasesFlush ==
  /\ [][stop_writing_
          => \A f \in Flushers :
               /\ (fpc[f] = "idle" => fpc'[f] = "idle")
               /\ (fpc[f] = "woken" => fpc'[f] # "waiting")]_vars
  /\ \A f \in Flushers : (stop_writing_ /\ fpc[f] # "idle") ~> (fpc[f] = "idle")

C18_Witness ==
  /\ stop_writing_
  /\ flush_worker_
  /\ \E f \in Flushers : fpc[f] = "woken"
  /\ \E s \in Stoppers : spc[s] = "join"

\* C19: without stop(), every record accepted by write() is eventually handed
\* to the encoder, the periodic timeout being enough to bring the worker to
\* it.
C19_TimeoutAloneDrains ==
  \A r \in 1..MaxFairWrites :
    (r \in Range(messages_)) ~> (r \in Handed \/ stop_writing_)

C19_Witness ==
  /\ flushCalls = 0
  /\ ~stop_writing_
  /\ timedDrain
  /\ accepted # <<>>
  /\ Range(accepted) \subseteq Handed

====
